---------------------------- MODULE Spec2Model ----------------------------
(* A model of src/app/makeReal.tsx: the makeReal flow (selection check,    *)
(* prompt building, placeholder creation, remote call, commit or rollback) *)
(* run by several overlapping invocations on one shared canvas, next to a  *)
(* user who changes the selection and deletes shapes between the flow's    *)
(* suspension points.  Strings are sequences of one-character strings, so  *)
(* that indexOf, slice and join are computed as JavaScript computes them.  *)
EXTENDS Integers, Sequences, FiniteSets

(***************************************************************************)
(* Bounds of the model.                                                    *)
(***************************************************************************)
\* overlapping invocations of makeReal
MaxInv == 2
\* user gestures (select, delete) in one run
MaxUserActs == 1
\* shapes the user selects at once
MaxSel == 2
\* ids in the descendant-id collection handed to getSelectionAsText
MaxIds == 3

(***************************************************************************)
(* JavaScript string and array primitives.                                 *)
(***************************************************************************)
Min(S) == CHOOSE x \in S : \A y \in S : x <= y

\* String.prototype.indexOf(sub): the first 0-based position, or -1
IndexOf(s, sub) ==
  LET hits == { k \in 0..(Len(s) - Len(sub)) : SubSeq(s, k + 1, k + Len(sub)) = sub }
  IN  IF hits = {} THEN -1 ELSE Min(hits)

\* the clamping String.prototype.slice applies to each of its indices
ClampIndex(k, n) == IF k < 0 THEN (IF n + k < 0 THEN 0 ELSE n + k)
                    ELSE (IF k > n THEN n ELSE k)

\* String.prototype.slice(a, b)
Slice(s, a, b) ==
  LET from == ClampIndex(a, Len(s))
      to   == ClampIndex(b, Len(s))
  IN  IF from >= to THEN <<>> ELSE SubSeq(s, from + 1, to)

RECURSIVE Join(_, _)
\* Array.prototype.join(sep)
Join(parts, sep) ==
  IF parts = <<>> THEN <<>>
  ELSE IF Len(parts) = 1 THEN parts[1]
  ELSE parts[1] \o sep \o Join(Tail(parts), sep)

NL == <<"\n">>

(***************************************************************************)
(* Literals of the source.                                                 *)
(***************************************************************************)
DoctypeMarker == <<"<", "!", "D", "O", "C", "T", "Y", "P", "E", " ", "h", "t", "m", "l", ">">>
CloseMarker == <<"<", "/", "h", "t", "m", "l", ">">>
systemPrompt == "You are a generative artist who specializes in p5.js. ..."
InstructionText == "Turn this into a single html file using tailwind."
EmptySelectionError == [name |-> "Error", message |-> "First select something to make real."]
MultiplePriorResponsesError ==
  [name |-> "Error", message |-> "You can only have one previous response selected"]
NoBoundsError == [name |-> "Error", message |-> "No selection bounds"]
NoError == [name |-> "none", message |-> ""]

(***************************************************************************)
(* The canvas: shapes by id, the selection, and the reads and mutations    *)
(* the flow asks of the editor.                                            *)
(***************************************************************************)
Shape(t, x, h, p) == [type |-> t, text |-> x, html |-> h, parent |-> p]
\* what editor.getShape gives for an id that resolves to no shape
NoShape == Shape("none", <<>>, <<>>, 0)

PriorHtml == DoctypeMarker \o <<"p">> \o CloseMarker
\* the canvas the runs start from: a frame that holds a text shape and a
\* response shape populated by an earlier, finished invocation
InitShapes ==
  << Shape("frame", <<>>, <<>>, 0),
     Shape("text", <<"a">>, <<>>, 1),
     Shape("response", <<>>, PriorHtml, 1) >>
NumInit == Len(InitShapes)

Inv == 1..MaxInv
ShapeIds == 1..(NumInit + MaxInv)

VARIABLES
  shapes,      \* the canvas: shape id -> shape (NoShape where there is none)
  selection,   \* the selected shape ids, in order
  nextId,      \* the next identifier createShapeId hands out
  userActs,    \* user gestures so far
  pc,          \* each invocation's position in makeReal
  dirty,       \* whether another actor changed the selection or the canvas since
               \* the invocation's emptiness check, and since its text gathering
  prompt,      \* the prompt an invocation has built and not sent yet (else <<>>)
  rid,         \* responseShapeId of the invocation (0 before creation)
  log,         \* the canvas mutations an invocation made, in order
  calls,       \* the remote requests an invocation issued
  got,         \* the reply an invocation's remote call resolved with
  raised,      \* the error first raised inside an invocation
  err,         \* the error that reached the invocation's caller
  suspends,    \* how many times an invocation has suspended
  tIds,        \* getSelectionAsText alone: the descendant-id collection
  tCanvas,     \* getSelectionAsText alone: the canvas it reads
  tResult,     \* getSelectionAsText alone: its result
  tDone        \* getSelectionAsText alone: whether it has been applied

flowVars == << shapes, selection, nextId, userActs, pc, dirty, prompt, rid, log, calls, got,
               raised, err, suspends >>
textVars == << tIds, tCanvas, tResult, tDone >>
vars == << flowVars, textVars >>

Exists(canvas, id) == canvas[id].type # "none"

\* editor.getSelectedShapes(): the shapes of the selected ids
getSelectedShapes(selIds, canvas) ==
  [k \in 1..Len(selIds) |-> canvas[selIds[k]]]

RECURSIVE Ancestors(_, _, _)
\* the ids on the parent chain of id (id excluded), at most n steps up
Ancestors(canvas, id, n) ==
  IF n = 0 \/ canvas[id].parent = 0 THEN {}
  ELSE {canvas[id].parent} \cup Ancestors(canvas, canvas[id].parent, n - 1)

\* the members of editor.getShapeAndDescendantIds(ids)
DescendantIdSet(ids, canvas) ==
  { d \in DOMAIN canvas :
      /\ Exists(canvas, d) \/ d \in ids
      /\ d \in ids \/ Ancestors(canvas, d, Cardinality(DOMAIN canvas)) \cap ids # {} }

\* the duplicate-free sequences that enumerate the set S
Enumerations(S) ==
  { q \in [1..Cardinality(S) -> S] : \A a, b \in 1..Cardinality(S) : a # b => q[a] # q[b] }

\* editor.deleteShape(id): the shape and its descendants go, and leave the selection
deleteShape(canvas, id) ==
  [d \in DOMAIN canvas |->
     IF d \in DescendantIdSet({id}, canvas) THEN NoShape ELSE canvas[d]]

RECURSIVE Keep(_, _)
\* the ids of q that still resolve to a shape of canvas, in order
Keep(q, canvas) ==
  IF q = <<>> THEN <<>>
  ELSE (IF Exists(canvas, Head(q)) THEN <<Head(q)>> ELSE <<>>) \o Keep(Tail(q), canvas)

\* editor.getSelectionPageBounds(): null exactly when nothing is selected
getSelectionPageBounds(selIds) == IF Len(selIds) = 0 THEN "null" ELSE "bounds"

(***************************************************************************)
(* getSelectionAsText, src/app/makeReal.tsx 156-178.                       *)
(***************************************************************************)
Null == [isNull |-> TRUE, v |-> <<>>]
Str(x) == [isNull |-> FALSE, v |-> x]

\* the kinds whose text is read (lines 164-169)
TextKinds == {"text", "geo", "arrow", "note"}

\* the callback of .map (lines 161-174)
TextOfId(id, canvas) ==
  LET shape == canvas[id]
  IN  IF ~Exists(canvas, id) THEN Null
      ELSE IF shape.type \in TextKinds THEN Str(shape.text)
      ELSE Null

\* a filter that drops null only, and keeps ''
KeepText_keepsEmpty(v) == ~v.isNull

\* the predicate of .filter (line 175)
KeepText(v) == (~v.isNull) /\ v.v # <<>>

RECURSIVE MapText(_, _)
MapText(ids, canvas) ==
  IF ids = <<>> THEN <<>>
  ELSE <<TextOfId(Head(ids), canvas)>> \o MapText(Tail(ids), canvas)

getSelectionAsText(descendantIds, canvas) ==
  LET texts == SelectSeq(MapText(descendantIds, canvas), KeepText)
  IN  Join([k \in 1..Len(texts) |-> texts[k].v], NL)

(***************************************************************************)
(* getContentOfPreviousResponse, lines 140-154: the outcome is a thrown    *)
(* error, null, or the html of the one response shape selected.            *)
(***************************************************************************)
IsResponse(shape) == shape.type = "response"

\* a lookup that silently picks the first of several responses
getContentOfPreviousResponse_first(selIds, canvas) ==
  LET previousResponses == SelectSeq(getSelectedShapes(selIds, canvas), IsResponse)
  IN  IF Len(previousResponses) = 0 THEN [threw |-> FALSE, value |-> Null]
      ELSE [threw |-> FALSE, value |-> Str(previousResponses[1].html)]

getContentOfPreviousResponse(selIds, canvas) ==
  LET previousResponses == SelectSeq(getSelectedShapes(selIds, canvas), IsResponse)
  IN  IF Len(previousResponses) = 0 THEN [threw |-> FALSE, value |-> Null]
      ELSE IF Len(previousResponses) > 1 THEN [threw |-> TRUE, value |-> Null]
      ELSE [threw |-> FALSE, value |-> Str(previousResponses[1].html)]

(***************************************************************************)
(* buildPromptForOpenAi, lines 62-100.                                     *)
(***************************************************************************)
ImagePart(url) == [type |-> "image_url", url |-> url, detail |-> "high"]
TextPart(x) == [type |-> "text", text |-> x]
\* the fixed instruction part (lines 74-77)
InstructionPart == [type |-> "text", text |-> InstructionText]

\* `if (previousResponseContent)`: null and '' are falsy (line 88)
Truthy(v) == (~v.isNull) /\ v.v # <<>>

\* a user message that leaves the text part out when the text is ''
userMessages_dropsEmptyText(url, text, previous) ==
  << ImagePart(url), InstructionPart >>
    \o (IF text # <<>> THEN << TextPart(text) >> ELSE <<>>)
    \o (IF Truthy(previous) THEN << TextPart(previous.v) >> ELSE <<>>)

\* the content of the user message (lines 65-93)
userMessages(url, text, previous) ==
  << ImagePart(url), InstructionPart, TextPart(text) >>
    \o (IF Truthy(previous) THEN << TextPart(previous.v) >> ELSE <<>>)

\* the returned list (lines 96-99)
PromptOf(content) ==
  << [role |-> "system", content |-> systemPrompt],
     [role |-> "user", content |-> content] >>

(***************************************************************************)
(* populateResponseShape, lines 102-123: the html it extracts.             *)
(***************************************************************************)
ExtractHtml(message) ==
  LET start == IndexOf(message, DoctypeMarker)
      end   == IndexOf(message, CloseMarker)
  IN  Slice(message, start, end + Len(CloseMarker))

\* the remote replies: a structured error, no completion at all, or one
\* completion with some content
ErrorReply(m) == [error |-> Str(m), choices |-> <<>>]
ContentReply(cs) == [error |-> Null, choices |-> cs]

\* what populateResponseShape does with a reply: it throws (lines 107-109, or
\* line 112 on a reply without a first completion) or hands html to updateShape
populateResponseShape(reply) ==
  IF ~reply.error.isNull
    THEN [threw |-> TRUE, error |-> [name |-> "Error", message |-> reply.error.v],
          html |-> <<>>]
  ELSE IF Len(reply.choices) = 0
    THEN [threw |-> TRUE,
          error |-> [name |-> "TypeError", message |-> "choices[0] is undefined"],
          html |-> <<>>]
  ELSE [threw |-> FALSE, error |-> NoError, html |-> ExtractHtml(reply.choices[1])]

\* editor.createShape({id, type: 'response', ...}): a response shape without html
createShape(canvas, id) == [canvas EXCEPT ![id] = Shape("response", <<>>, <<>>, 0)]

\* editor.updateShape({id, type: 'response', props: {html}}): nothing when the
\* id resolves to no shape
updateShape(canvas, id, html) ==
  IF Exists(canvas, id) THEN [canvas EXCEPT ![id].html = html] ELSE canvas

\* an identifier that is the same at every call
createShapeId_fixed == NumInit + 1

\* createShapeId(): an identifier no shape has had
createShapeId == nextId

(***************************************************************************)
(* Inputs of the runs.                                                     *)
(***************************************************************************)
WellFormed == <<"x">> \o DoctypeMarker \o <<"a">> \o CloseMarker \o <<"y">>
CloseFirst == CloseMarker \o DoctypeMarker \o <<"a">> \o CloseMarker
Contents == {WellFormed, CloseFirst}
Replies ==
  {ErrorReply("quota exceeded"), ContentReply(<<>>)}
    \cup {ContentReply(<<c>>) : c \in Contents}
NoReply == ErrorReply("")
TransportErrors == {[name |-> "TypeError", message |-> "fetch failed"]}
\* the image of the selection: getSelectionAsImageDataUrl is an opaque function
\* from the selection to an image reference
DataUrl == "data:image/png;base64,..."

Range(q) == {q[k] : k \in 1..Len(q)}
IsAscending(q) == \A a, b \in 1..Len(q) : a < b => q[a] < q[b]
AscendingIds == UNION { { q \in [1..n -> ShapeIds] : IsAscending(q) } : n \in 0..MaxSel }
\* what the user can select: up to MaxSel existing shapes
Selectable(canvas) == { q \in AscendingIds : \A k \in 1..Len(q) : Exists(canvas, q[k]) }

InitCanvas == [d \in ShapeIds |-> IF d <= NumInit THEN InitShapes[d] ELSE NoShape]
Clean == [sinceCheck |-> FALSE, sinceText |-> FALSE]

FlowInit ==
  /\ shapes = InitCanvas
  /\ selection \in Selectable(InitCanvas)
  /\ nextId = NumInit + 1
  /\ userActs = 0
  /\ pc = [i \in Inv |-> "idle"]
  /\ dirty = [i \in Inv |-> Clean]
  /\ prompt = [i \in Inv |-> <<>>]
  /\ rid = [i \in Inv |-> 0]
  /\ log = [i \in Inv |-> <<>>]
  /\ calls = [i \in Inv |-> 0]
  /\ got = [i \in Inv |-> NoReply]
  /\ raised = [i \in Inv |-> NoError]
  /\ err = [i \in Inv |-> NoError]
  /\ suspends = [i \in Inv |-> 0]

TextIdle ==
  /\ tIds = <<>>
  /\ tCanvas = <<>>
  /\ tResult = <<>>
  /\ tDone = FALSE

Init == FlowInit /\ TextIdle

(***************************************************************************)
(* Scheduling.  The host runs one task at a time.  An event handler, a     *)
(* settled capture and a settled remote call each start a task; the        *)
(* continuation after `await buildPromptForOpenAi(editor)` (line 30) is a  *)
(* microtask of the task that built the prompt, so no task starts while an *)
(* invocation waits there.                                                 *)
(***************************************************************************)
\* line 30 taken as a point where any task may run
MayStartTask_always == TRUE

MayStartTask == \A j \in Inv : pc[j] # "built"

\* dirty after a step of actor (0: the user) that leaves actor's own marks as
\* own and that changed the selection or the canvas iff changed
Disturb(actor, own, changed) ==
  [j \in Inv |->
     IF j = actor THEN own
     ELSE IF changed /\ pc[j] = "capturing" THEN [dirty[j] EXCEPT !.sinceCheck = TRUE]
     ELSE IF changed /\ pc[j] = "built" THEN [sinceCheck |-> TRUE, sinceText |-> TRUE]
     ELSE dirty[j]]

\* an emptiness check that never fires
NothingSelected_never(selectedShapes) == Len(selectedShapes) < 0

\* `selectedShapes.length === 0` (line 25)
NothingSelected(selectedShapes) == Len(selectedShapes) = 0

\* an invocation fails before it has created anything: the error reaches the caller
Fail(i, e) ==
  /\ pc' = [pc EXCEPT ![i] = "failed"]
  /\ dirty' = Disturb(i, Clean, FALSE)
  /\ prompt' = [prompt EXCEPT ![i] = <<>>]
  /\ raised' = [raised EXCEPT ![i] = e]
  /\ err' = [err EXCEPT ![i] = e]

\* lines 22-30 and 62-70: the emptiness check, then the call of
\* buildPromptForOpenAi up to its await of the selection's image
makeReal_begin(i) ==
  /\ pc[i] = "idle"
  /\ \A j \in Inv : j < i => pc[j] # "idle"
  /\ MayStartTask
  /\ IF NothingSelected(getSelectedShapes(selection, shapes))
       THEN /\ Fail(i, EmptySelectionError)
            /\ UNCHANGED suspends
       ELSE /\ pc' = [pc EXCEPT ![i] = "capturing"]
            /\ suspends' = [suspends EXCEPT ![i] = @ + 1]
            /\ UNCHANGED << dirty, prompt, raised, err >>
  /\ UNCHANGED << shapes, selection, nextId, userActs, rid, log, calls, got >>
  /\ UNCHANGED textVars

\* lines 70-99: buildPromptForOpenAi resumes with the image, gathers the text,
\* looks the previous response up and returns; makeReal awaits it (line 30)
buildPromptForOpenAi_resume(i) ==
  /\ pc[i] = "capturing"
  /\ MayStartTask
  /\ \E text \in { getSelectionAsText(order, shapes) :
                     order \in Enumerations(DescendantIdSet(Range(selection), shapes)) } :
       LET previous == getContentOfPreviousResponse(selection, shapes)
       IN  IF previous.threw
             THEN /\ Fail(i, MultiplePriorResponsesError)
                  /\ UNCHANGED suspends
             ELSE /\ prompt' = [prompt EXCEPT ![i] =
                                  PromptOf(userMessages(DataUrl, text, previous.value))]
                  /\ pc' = [pc EXCEPT ![i] = "built"]
                  /\ suspends' = [suspends EXCEPT ![i] = @ + 1]
                  /\ UNCHANGED << dirty, raised, err >>
  /\ UNCHANGED << shapes, selection, nextId, userActs, rid, log, calls, got >>
  /\ UNCHANGED textVars

\* lines 34-51 and 125-138: makeEmptyResponseShape, then the remote call is
\* issued and makeReal awaits it
makeReal_createAndFetch(i) ==
  /\ pc[i] = "built"
  /\ IF getSelectionPageBounds(selection) = "null"
       THEN /\ Fail(i, NoBoundsError)
            /\ UNCHANGED << shapes, nextId, rid, log, calls, suspends >>
       ELSE /\ shapes' = createShape(shapes, createShapeId)
            /\ dirty' = Disturb(i, Clean, TRUE)
            /\ rid' = [rid EXCEPT ![i] = createShapeId]
            /\ nextId' = nextId + 1
            /\ log' = [log EXCEPT ![i] = Append(@, <<"create", createShapeId>>)]
            \* fetchFromOpenAi(..., {..., messages: prompt}) takes the prompt
            /\ calls' = [calls EXCEPT ![i] = @ + 1]
            /\ pc' = [pc EXCEPT ![i] = "fetching"]
            /\ suspends' = [suspends EXCEPT ![i] = @ + 1]
            /\ prompt' = [prompt EXCEPT ![i] = <<>>]
            /\ UNCHANGED << raised, err >>
  /\ UNCHANGED << selection, userActs, got >>
  /\ UNCHANGED textVars

\* a `finally` in place of the `catch`
Catches_always(threw) == TRUE

\* lines 55-59: whether the catch block runs after the try block
Catches(threw) == threw

\* a catch block that only rethrows
CatchCleanup_none(canvas, id) == canvas

\* line 57: what the catch block does to the canvas
CatchCleanup(canvas, id) == deleteShape(canvas, id)

\* line 58: what the catch block throws
Rethrow(e) == e

\* lines 36-59: the try block has ended, having thrown e or not
TryEnds(i, canvas, calledUpdate, threw, e) ==
  LET updates == IF calledUpdate THEN << <<"update", rid[i]>> >> ELSE <<>>
  IN  /\ raised' = [raised EXCEPT ![i] = IF threw THEN e ELSE NoError]
      /\ pc' = [pc EXCEPT ![i] = IF threw THEN "failed" ELSE "done"]
      /\ dirty' = Disturb(i, Clean, TRUE)
      /\ IF Catches(threw)
           THEN /\ shapes' = CatchCleanup(canvas, rid[i])
                /\ selection' = Keep(selection, shapes')
                /\ log' = [log EXCEPT ![i] = @ \o updates \o << <<"delete", rid[i]>> >>]
                /\ err' = [err EXCEPT ![i] = IF threw THEN Rethrow(e) ELSE NoError]
           ELSE /\ shapes' = canvas
                /\ log' = [log EXCEPT ![i] = @ \o updates]
                /\ err' = [err EXCEPT ![i] = IF threw THEN e ELSE NoError]
                /\ UNCHANGED selection

\* lines 46-54: the remote call resolves with a reply and
\* populateResponseShape runs on it
fetch_resolves(i) ==
  /\ pc[i] = "fetching"
  /\ MayStartTask
  /\ \E reply \in Replies :
       LET out == populateResponseShape(reply)
       IN  /\ got' = [got EXCEPT ![i] = reply]
           /\ TryEnds(i,
                      IF out.threw THEN shapes ELSE updateShape(shapes, rid[i], out.html),
                      ~out.threw, out.threw, out.error)
  /\ UNCHANGED << nextId, userActs, prompt, rid, calls, suspends >>
  /\ UNCHANGED textVars

\* line 46: the remote call fails at the transport level
fetch_rejects(i) ==
  /\ pc[i] = "fetching"
  /\ MayStartTask
  /\ \E e \in TransportErrors : TryEnds(i, shapes, FALSE, TRUE, e)
  /\ UNCHANGED << nextId, userActs, prompt, rid, calls, got, suspends >>
  /\ UNCHANGED textVars

(***************************************************************************)
(* The user, between the tasks of the invocations.                         *)
(***************************************************************************)
UserSelects ==
  /\ MayStartTask
  /\ userActs < MaxUserActs
  /\ \E q \in Selectable(shapes) : q # selection /\ selection' = q
  /\ dirty' = Disturb(0, Clean, TRUE)
  /\ userActs' = userActs + 1
  /\ UNCHANGED << shapes, nextId, pc, prompt, rid, log, calls, got, raised, err,
                  suspends >>
  /\ UNCHANGED textVars

UserDeletes ==
  /\ MayStartTask
  /\ userActs < MaxUserActs
  /\ \E d \in ShapeIds :
       /\ Exists(shapes, d)
       /\ shapes' = deleteShape(shapes, d)
       /\ selection' = Keep(selection, shapes')
  /\ dirty' = Disturb(0, Clean, TRUE)
  /\ userActs' = userActs + 1
  /\ UNCHANGED << nextId, pc, prompt, rid, log, calls, got, raised, err, suspends >>
  /\ UNCHANGED textVars

Next ==
  \/ \E i \in Inv : makeReal_begin(i)
  \/ \E i \in Inv : buildPromptForOpenAi_resume(i)
  \/ \E i \in Inv : makeReal_createAndFetch(i)
  \/ \E i \in Inv : fetch_resolves(i)
  \/ \E i \in Inv : fetch_rejects(i)
  \/ UserSelects
  \/ UserDeletes

Spec == Init /\ [][Next]_vars

(***************************************************************************)
(* getSelectionAsText on its own: any duplicate-free collection of up to   *)
(* MaxIds ids, each resolving to one of the shapes below or to no shape.   *)
(***************************************************************************)
TextShapes ==
  { NoShape,
    Shape("text", <<>>, <<>>, 0),
    Shape("text", <<"a">>, <<>>, 0),
    Shape("geo", <<"b">>, <<>>, 0),
    Shape("arrow", <<>>, <<>>, 0),
    Shape("note", <<"n", "\n">>, <<>>, 0),
    Shape("frame", <<"f">>, <<>>, 0),
    Shape("response", <<>>, PriorHtml, 0) }

TextIds == 1..MaxIds

FlowIdle ==
  /\ shapes = InitCanvas
  /\ selection = <<>>
  /\ nextId = NumInit + 1
  /\ userActs = 0
  /\ pc = [i \in Inv |-> "idle"]
  /\ dirty = [i \in Inv |-> Clean]
  /\ prompt = [i \in Inv |-> <<>>]
  /\ rid = [i \in Inv |-> 0]
  /\ log = [i \in Inv |-> <<>>]
  /\ calls = [i \in Inv |-> 0]
  /\ got = [i \in Inv |-> NoReply]
  /\ raised = [i \in Inv |-> NoError]
  /\ err = [i \in Inv |-> NoError]
  /\ suspends = [i \in Inv |-> 0]

TextInit ==
  /\ FlowIdle
  /\ tIds \in UNION { Enumerations(S) : S \in SUBSET TextIds }
  /\ tCanvas \in [TextIds -> TextShapes]
  /\ \A d \in TextIds : d \notin Range(tIds) => tCanvas[d] = NoShape
  /\ tResult = <<>>
  /\ tDone = FALSE

\* lines 156-178, on the collection tIds and the canvas tCanvas
getSelectionAsText_apply ==
  /\ ~tDone
  /\ tResult' = getSelectionAsText(tIds, tCanvas)
  /\ tDone' = TRUE
  /\ UNCHANGED << tIds, tCanvas >>
  /\ UNCHANGED flowVars

TextNext == getSelectionAsText_apply

SpecText == TextInit /\ [][TextNext]_vars

(***************************************************************************)
(* The claims.                                                             *)
(***************************************************************************)
Finished(i) == pc[i] \in {"done", "failed"}
Created(i) == << "create", rid[i] >>
Updated(i) == << "update", rid[i] >>
Deleted(i) == << "delete", rid[i] >>

\* C1: when an invocation has finished, the response shape it created holds
\* non-empty html or no shape with its identifier exists, for every reply.
C1_AllOrNothing ==
  \A i \in Inv :
    (Finished(i) /\ rid[i] # 0) =>
      (~Exists(shapes, rid[i]) \/ shapes[rid[i]].html # <<>>)

\* C2: after a failure that follows the creation of the placeholder (the
\* remote call throws, the reply carries an error field, extraction throws),
\* the invocation has deleted its placeholder by its identifier, no shape with
\* that identifier remains, and the caller gets the error that was raised.
C2_RollbackOnFailure ==
  \A i \in Inv :
    /\ (pc[i] = "failed" /\ rid[i] # 0) =>
         /\ ~Exists(shapes, rid[i])
         /\ log[i] = << Created(i), Deleted(i) >>
         /\ err[i] # NoError
         /\ err[i] = raised[i]
    /\ (Finished(i) /\ got[i] # NoReply /\ (~got[i].error.isNull \/ got[i].choices = <<>>)) =>
         pc[i] = "failed"

C2_Witness ==
  \E i, j \in Inv :
    /\ pc[i] = "failed" /\ rid[i] # 0 /\ err[i] \in TransportErrors
    /\ pc[j] = "failed" /\ rid[j] # 0 /\ ~got[j].error.isNull /\ got[j] # NoReply

\* C3: an invocation that starts with an empty selection fails in that step
\* with the empty-selection error, the step mutates nothing on the canvas and
\* issues no remote call, and the failed invocation never has.
C3_EmptySelection ==
  /\ [][\A i \in Inv :
          (pc[i] = "idle" /\ pc'[i] # "idle" /\ selection = <<>>) =>
            /\ pc'[i] = "failed" /\ err'[i] = EmptySelectionError
            /\ shapes' = shapes /\ selection' = selection
            /\ calls' = calls /\ nextId' = nextId]_vars
  /\ [](\A i \in Inv :
          err[i] = EmptySelectionError =>
            /\ pc[i] = "failed"
            /\ rid[i] = 0 /\ log[i] = <<>> /\ calls[i] = 0 /\ suspends[i] = 0)

C3_Witness == \E i \in Inv : pc[i] = "failed" /\ err[i] = EmptySelectionError

\* the response shapes that are directly selected
DirectResponses(selIds, canvas) ==
  { k \in 1..Len(selIds) : canvas[selIds[k]].type = "response" }

PriorParts(i) == { k \in 4..Len(prompt[i][2].content) : TRUE }

\* C4: when the prior-response lookup finds two or more response shapes
\* directly selected, the invocation fails in that step with the
\* multiple-prior-responses error, no placeholder created and no remote call
\* issued, then or ever; a prompt holds the html of at most one prior response.
C4_MultiplePriorResponses ==
  /\ [][\A i \in Inv :
          ( /\ pc[i] = "capturing" /\ pc'[i] # "capturing"
            /\ Cardinality(DirectResponses(selection, shapes)) >= 2 ) =>
            /\ pc'[i] = "failed" /\ err'[i] = MultiplePriorResponsesError
            /\ rid'[i] = 0 /\ calls'[i] = 0
            /\ shapes' = shapes /\ nextId' = nextId]_vars
  /\ [](\A i \in Inv :
          /\ err[i] = MultiplePriorResponsesError =>
               /\ pc[i] = "failed"
               /\ rid[i] = 0 /\ log[i] = <<>> /\ calls[i] = 0
          /\ pc[i] = "built" => Cardinality(PriorParts(i)) <= 1)

C4_Witness ==
  \E i \in Inv :
    /\ pc[i] = "failed" /\ err[i] = MultiplePriorResponsesError
    /\ Cardinality(DirectResponses(selection, shapes)) >= 2

Occurrences(s, sub) ==
  { k \in 0..(Len(s) - Len(sub)) : SubSeq(s, k + 1, k + Len(sub)) = sub }

\* the closing markers located at or after the end of the first doctype marker
ClosesAfterDoctype(m) ==
  { e \in Occurrences(m, CloseMarker) :
      e >= Min(Occurrences(m, DoctypeMarker)) + Len(DoctypeMarker) }

ExactlyOneSpan(m) ==
  /\ Cardinality(Occurrences(m, DoctypeMarker)) = 1
  /\ Cardinality(ClosesAfterDoctype(m)) = 1

\* from the start of the first doctype marker through the end of the first
\* closing marker at or after it
FirstSpan(m) ==
  SubSeq(m, Min(Occurrences(m, DoctypeMarker)) + 1,
            Min(ClosesAfterDoctype(m)) + Len(CloseMarker))

\* C5: for a reply without error whose first completion holds exactly one
\* well-formed doctype..closing-tag span, the html committed to the placeholder
\* is that span, markers included, whatever text surrounds it.
C5_CommitsTheSpan ==
  \A i \in Inv :
    ( /\ pc[i] = "done"
      /\ Exists(shapes, rid[i])
      /\ got[i].error.isNull /\ Len(got[i].choices) > 0
      /\ ExactlyOneSpan(got[i].choices[1]) )
    => shapes[rid[i]].html = FirstSpan(got[i].choices[1])

\* C6: the response shape of an invocation goes created (empty html) ->
\* populated or created -> deleted: the invocation writes its html at most
\* once, never after deleting it, and never deletes it after populating it.
C6_Lifecycle ==
  \A i \in Inv :
    /\ log[i] \in { <<>>, << Created(i) >>, << Created(i), Updated(i) >>,
                    << Created(i), Deleted(i) >> }
    /\ pc[i] = "fetching" =>
         /\ log[i] = << Created(i) >>
         /\ Exists(shapes, rid[i]) => shapes[rid[i]].html = <<>>
    /\ pc[i] = "done" => log[i] = << Created(i), Updated(i) >>
    /\ (pc[i] = "failed" /\ rid[i] # 0) => log[i] = << Created(i), Deleted(i) >>

C6_Witness ==
  \E i, j \in Inv :
    /\ log[i] = << Created(i), Updated(i) >> /\ Exists(shapes, rid[i])
    /\ log[j] = << Created(j), Deleted(j) >>

\* C7 as claimed: the remote call is the only point where an invocation
\* suspends, so nothing changes the selection or the canvas between its
\* emptiness check and its placeholder creation.
C7_NoInterleaving ==
  \A i \in Inv : pc[i] \in {"capturing", "built"} => ~dirty[i].sinceCheck

\* C7 as amended: an invocation suspends at three awaits (the image capture,
\* the built prompt, the remote call); from the text gathering to the
\* placeholder creation nothing changes the selection or the canvas, so the
\* text gathering, the prior-response lookup, the bounds read and the
\* placeholder creation see one selection.
C7_SuspensionPoints ==
  \A i \in Inv :
    /\ suspends[i] <= 3
    /\ pc[i] = "capturing" => suspends[i] = 1
    /\ pc[i] = "built" => suspends[i] = 2 /\ ~dirty[i].sinceText
    /\ pc[i] \in {"fetching", "done"} => suspends[i] = 3

C7_Witness ==
  \E i \in Inv : pc[i] = "built" /\ dirty[i].sinceCheck /\ ~dirty[i].sinceText

\* C8: overlapping invocations create placeholders with distinct identifiers,
\* each issues its own remote call, and each one's commit or rollback touches
\* only the placeholder with its own identifier.
C8_IndependentInvocations ==
  /\ \A i, j \in Inv : (i # j /\ rid[i] # 0 /\ rid[j] # 0) => rid[i] # rid[j]
  /\ \A i \in Inv :
       /\ \A k \in 1..Len(log[i]) : log[i][k][2] = rid[i]
       /\ calls[i] = IF rid[i] # 0 THEN 1 ELSE 0
       /\ rid[i] # 0 => rid[i] > NumInit
  /\ userActs = 0 =>
       /\ \A d \in 1..NumInit : shapes[d] = InitShapes[d]
       /\ \A i \in Inv :
            /\ pc[i] = "fetching" => shapes[rid[i]] = Shape("response", <<>>, <<>>, 0)
            /\ pc[i] = "done" =>
                 shapes[rid[i]] =
                   Shape("response", <<>>, ExtractHtml(got[i].choices[1]), 0)
            /\ (pc[i] = "failed" /\ rid[i] # 0) => ~Exists(shapes, rid[i])

C8_Witness ==
  \E i, j \in Inv :
    /\ i # j /\ userActs = 0
    /\ pc[i] = "done" /\ shapes[rid[i]].html # <<>>
    /\ pc[j] = "fetching"

\* what one id contributes to the gathered text (<<>>: nothing)
Contribution(id, canvas) ==
  IF canvas[id].type \in {"text", "geo", "arrow", "note"} THEN canvas[id].text ELSE <<>>

RECURSIVE ExpectedText(_, _)
\* the contributions of ids in order, one per line
ExpectedText(ids, canvas) ==
  IF ids = <<>> THEN <<>>
  ELSE LET first == Contribution(Head(ids), canvas)
           rest == ExpectedText(Tail(ids), canvas)
       IN  IF first = <<>> THEN rest
           ELSE IF rest = <<>> THEN first
           ELSE first \o NL \o rest

\* C9: the prompt is [system message, user message]; the user message holds an
\* image part (detail high), the fixed instruction, a text part with the
\* gathered selection text (also when it is empty) and a fourth text part with
\* the prior html iff exactly one response shape is directly selected and its
\* html is not empty.
C9_PromptShape ==
  \A i \in Inv :
    pc[i] = "built" =>
      LET parts == prompt[i][2].content
          direct == DirectResponses(selection, shapes)
          hasPrior == /\ Cardinality(direct) = 1
                      /\ \A k \in direct : shapes[selection[k]].html # <<>>
      IN  /\ Len(prompt[i]) = 2
          /\ prompt[i][1] = [role |-> "system", content |-> systemPrompt]
          /\ prompt[i][2].role = "user"
          /\ Len(parts) = IF hasPrior THEN 4 ELSE 3
          /\ parts[1] = [type |-> "image_url", url |-> DataUrl, detail |-> "high"]
          /\ parts[2] = [type |-> "text", text |-> InstructionText]
          /\ parts[3].type = "text"
          /\ parts[3].text \in
               { ExpectedText(order, shapes) :
                   order \in Enumerations(DescendantIdSet(Range(selection), shapes)) }
          /\ hasPrior =>
               \A k \in direct :
                 parts[4] = [type |-> "text", text |-> shapes[selection[k]].html]

C9_Witness ==
  \E i \in Inv :
    /\ pc[i] = "built"
    /\ Len(prompt[i][2].content) = 4
    /\ prompt[i][2].content[3].text = <<>>

NoBlankLine(t) ==
  \/ t = <<>>
  \/ /\ t[1] # "\n"
     /\ t[Len(t)] # "\n"
     /\ \A k \in 1..(Len(t) - 1) : ~(t[k] = "\n" /\ t[k + 1] = "\n")

\* C10 as claimed: the gathered text lists the texts of the text, geo, arrow
\* and note shapes in the order of the collection, joined by newlines, and has
\* no leading, trailing or doubled newline.
C10_NoBlankLineAtAll ==
  tDone => (tResult = ExpectedText(tIds, tCanvas) /\ NoBlankLine(tResult))

\* C10 as amended: the gathered text lists those texts in the order of the
\* collection, joined by newlines; other kinds, unresolved ids and empty texts
\* add no entry and no blank line, so a leading, trailing or doubled newline
\* is in the result only when a contributing text itself holds one.
C10_GatheredText ==
  tDone =>
    /\ tResult = ExpectedText(tIds, tCanvas)
    /\ (\A k \in 1..Len(tIds) : NoBlankLine(Contribution(tIds[k], tCanvas)))
         => NoBlankLine(tResult)

C10_Witness ==
  /\ tDone
  /\ Len(tIds) = MaxIds
  /\ \E k \in 1..Len(tIds) : tCanvas[tIds[k]] = NoShape
  /\ tResult = <<"b", "\n", "a">>

====
